---- MODULE Spec2Model ----
(***************************************************************************)
(* The socket dispatcher of cards-against-net (the server half of          *)
(* src/www/src/views/Game.jsx, lines 414-510) together with the game       *)
(* session it drives.  Every handler registered through handleMessage is   *)
(* an async function: it runs synchronously up to its first await          *)
(* (db.getGame), is suspended while the directory resolves the session,    *)
(* and then runs its continuation to the next await or to its end.  Other  *)
(* handlers may run while one is suspended.  The Game object returned by   *)
(* db.getGame is the live session: handlers mutate it in place and never   *)
(* write it back.                                                          *)
(*                                                                         *)
(* The Game class and the db module are not part of the source tree; they  *)
(* are modelled from sections 3, 4.2 and 4.3 of the specification.         *)
(*                                                                         *)
(* The client half of the file (lines 1-413) is modelled by two further    *)
(* specifications over variables of their own: SpecView, the Game view of  *)
(* one client with its effect, its click handlers and what it renders, and *)
(* SpecPicker, one mounted CardPicker.  In Spec no view is mounted; in     *)
(* SpecView and SpecPicker the dispatcher stays in its initial state.      *)
(***************************************************************************)
EXTENDS Integers, Sequences, FiniteSets, TLC

\* Connections (socket ids).  A client's player id is its socket id
\* (Game.jsx line 27), so connections double as player ids.
Conns == {"a", "b", "c"}

\* Session ids known to the clients.
Games == {"g1"}

NoPlayer == "none"
NoRound == [host |-> NoPlayer, whiteCards |-> <<>>, winner |-> NoPlayer]

\* Total number of commands the connections send.
MaxCmds == 6

\* Number of response cards in the deck loaned to a session.
DeckSize == 4

\* House hand limit and the prompt card's pick count.
HandLimit == 1
Pick == 1

Cards == 1..DeckSize

VARIABLES
    db,      \* the session directory: ids of the sessions it holds
    games,   \* the live Game object of each id
    rooms,   \* rooms[g]: connections subscribed to room game-<g>
    pc,      \* pc[c]: where the handler running for connection c is
    cmd,     \* cmd[c]: the command that handler is executing
    timers,  \* pending setTimeout callbacks of finish-round
    out,     \* events emitted by the last step, in order
    last,    \* the listener that ended in the last step, and how
    ann,     \* ann[g][i]: events sent so far for the finish-round that closed round i
    accepted,\* accepted[g]: the submissions playWhiteCards accepted in the current round
    ncmds,   \* number of commands received so far
    \* the Game view of one client (Game.jsx lines 23-151)
    game,    \* the cached game the view renders (useGame)
    winner,  \* the winner state of the view (useState, line 40)
    handlers,\* handlers[e]: number of handlers registered on the socket for event e
    emitted, \* messages the view emitted in the last step, in order
    screen,  \* what Round rendered at the last render
    \* one mounted CardPicker (Game.jsx lines 340-413)
    cardsToPick,  \* its cardsToPick prop
    selected,     \* its selected state (useState, line 341)
    picked        \* what its last click handed to onCardsPicked / onDiscard

vars == <<db, games, rooms, pc, cmd, timers, out, last, ann, accepted, ncmds>>

viewVars == <<game, winner, handlers, emitted, screen>>

pickerVars == <<cardsToPick, selected, picked>>

----------------------------------------------------------------------------
(* Sequence helpers *)

Range(s) == {s[i] : i \in DOMAIN s}

IndexOf(s, x) == CHOOSE i \in DOMAIN s : s[i] = x

Remove(s, x) == SelectSeq(s, LAMBDA y : y # x)

Min(m, n) == IF m <= n THEN m ELSE n

RECURSIVE SortedSeq(_)
SortedSeq(S) ==
    IF S = {} THEN <<>>
    ELSE LET m == CHOOSE x \in S : \A y \in S : x <= y
         IN <<m>> \o SortedSeq(S \ {m})

----------------------------------------------------------------------------
(* The Game session *)

NewGame ==
    [players |-> <<>>,
     points |-> [p \in Conns |-> 0],
     hands |-> [p \in Conns |-> {}],
     host |-> NoPlayer,
     whiteCards |-> <<>>,
     finishedRounds |-> <<>>,
     pool |-> [i \in 1..DeckSize |-> i],
     discard |-> {}]

\* drawResponses: reshuffle the discard pile in when the pool cannot serve
\* the draw, then give player p up to n cards from the top of the pool.
DrawResponses(g, p, n) ==
    LET r == IF Len(g.pool) >= n THEN g
             ELSE [g EXCEPT !.pool = g.pool \o SortedSeq(g.discard), !.discard = {}]
        k == Min(n, Len(r.pool))
    IN [r EXCEPT !.hands[p] = @ \cup {r.pool[i] : i \in 1..k},
                 !.pool = SubSeq(r.pool, k + 1, Len(r.pool))]

HasSubmitted(g, p) == \E i \in DOMAIN g.whiteCards : g.whiteCards[i].player = p

Submitters(g) == {g.whiteCards[i].player : i \in DOMAIN g.whiteCards}

\* addPlayer: an id already present is reused; otherwise the player is
\* appended with 0 points and a fresh hand, and becomes host if there is none.
AddPlayer(g, p) ==
    IF p \in Range(g.players) THEN g
    ELSE LET g1 == [g EXCEPT !.players = Append(@, p),
                             !.points[p] = 0,
                             !.host = IF @ = NoPlayer THEN p ELSE @]
         IN DrawResponses(g1, p, HandLimit)

\* removePlayer: the hand and any submission of the player go back to the
\* discard pile; a leaving host hands the role to the next player in join order.
RemovePlayer(g, p) ==
    IF p \notin Range(g.players) THEN g
    ELSE LET i == IndexOf(g.players, p)
             rest == Remove(g.players, p)
             mine == {g.whiteCards[j].card : j \in {k \in DOMAIN g.whiteCards : g.whiteCards[k].player = p}}
             next == IF rest = <<>> THEN NoPlayer ELSE rest[((i - 1) % Len(rest)) + 1]
         IN [g EXCEPT !.players = rest,
                      !.points[p] = 0,
                      !.hands[p] = {},
                      !.discard = @ \cup g.hands[p] \cup mine,
                      !.whiteCards = SelectSeq(@, LAMBDA w : w.player # p),
                      !.host = IF @ = p THEN next ELSE @]

PlayWhiteCardsErr(g, cards, p) ==
    IF p = g.host THEN "NotYourTurn"
    ELSE IF HasSubmitted(g, p) THEN "AlreadySubmitted"
    ELSE IF Len(cards) # Pick THEN "WrongCardCount"
    ELSE IF \E i \in DOMAIN cards : cards[i] \notin g.hands[p] THEN "CardNotInHand"
    ELSE "none"

\* playWhiteCards: the cards leave the hand, one hidden entry per card is
\* appended to the round, and the hand is refilled to the limit.
PlayWhiteCards(g, cards, p) ==
    LET g1 == [g EXCEPT !.hands[p] = @ \ Range(cards),
                        !.whiteCards = @ \o [i \in DOMAIN cards |->
                                                [player |-> p, card |-> cards[i], hidden |-> TRUE]]]
    IN DrawResponses(g1, p, HandLimit - Cardinality(g1.hands[p]))

\* revealCard as the dispatcher calls it: with the target player only.
RevealCardErr(g, target) ==
    IF HasSubmitted(g, target) THEN "none" ELSE "NoSuchSubmission"

RevealCard(g, target) ==
    [g EXCEPT !.whiteCards = [i \in DOMAIN @ |->
                                 IF @[i].player = target THEN [@[i] EXCEPT !.hidden = FALSE] ELSE @[i]]]

FinishRoundErr(g, w) ==
    IF w = g.host \/ ~HasSubmitted(g, w) THEN "InvalidWinner" ELSE "none"

\* finishRound: one point to the winner, the round is snapshotted into the
\* history, the host role moves to the next player in join order, and the
\* new round starts without submissions.
FinishRound(g, w) ==
    LET i == IndexOf(g.players, g.host)
    IN [g EXCEPT !.points[w] = @ + 1,
                 !.finishedRounds = Append(@, [host |-> g.host, whiteCards |-> g.whiteCards, winner |-> w]),
                 !.host = g.players[(i % Len(g.players)) + 1],
                 !.discard = @ \cup {g.whiteCards[j].card : j \in DOMAIN g.whiteCards},
                 !.whiteCards = <<>>]

\* game.getLastFinishedRound() of the session object.
GameGetLastFinishedRound(g) ==
    IF g.finishedRounds = <<>> THEN NoRound ELSE g.finishedRounds[Len(g.finishedRounds)]

----------------------------------------------------------------------------
(* Events *)

\* A pending timer: the session its callback closes over.  fin (the index of
\* the round the scheduling command finished) and live (the session was in the
\* directory when the timer was set) are bookkeeping of the model.
Timer(g, fin) == [game |-> g, fin |-> fin, live |-> g \in db]
NoTimer == [game |-> "none", fin |-> 0, live |-> FALSE]

\* An emitted event: its name, the room it is sent to, the connections in
\* that room when it is sent, and its payload.  from (the connection whose
\* handler emitted it) and timer (the timer that emitted it) are bookkeeping
\* of the model.
Event(name, room, to, payload, from, timer) ==
    [name |-> name, room |-> room, to |-> to, payload |-> payload, from |-> from, timer |-> timer]

\* io.to(room).emit(name, payload) from the handler of connection c
RoomEvent(name, g, payload, c) == Event(name, g, rooms[g], payload, c, NoTimer)

\* ErrorEvent, had the catch emitted to the rooms instead of the sender's own room
ErrorEvent_Room(c, key, err) ==
    Event("error", c, {c} \cup UNION {rooms[g] : g \in Games}, <<key, err>>, c, NoTimer)

\* the catch of handleMessage: io.to(socket.id).emit('error', msg)
ErrorEvent(c, key, err) == Event("error", c, {c}, <<key, err>>, c, NoTimer)

\* effect: the handler has changed the session or broadcast to its room.
\* raced: when db.getGame resolved, a handler of the same command already held
\* the session.
NoCmd == [key |-> "none", gameId |-> "none", playerId |-> NoPlayer, cards |-> <<>>,
          effect |-> FALSE, raced |-> FALSE]
NoLast == [conn |-> NoPlayer, key |-> "none", gameId |-> "none", playerId |-> NoPlayer,
           err |-> "none", effect |-> FALSE, raced |-> FALSE]

\* No view is mounted: the dispatcher is studied on its own.
NoGame == [id |-> "none", players |-> <<>>, round |-> [host |-> NoPlayer, whiteCards |-> <<>>],
           finishedRounds |-> <<>>, finished |-> FALSE]
NoPick == [call |-> "none", cards |-> <<>>]
NullRound == [isNull |-> TRUE]
NoScreen == [button |-> FALSE, groups |-> <<>>, modal |-> NullRound]
ViewOff ==
    /\ game = NoGame
    /\ winner = NoPlayer
    /\ handlers = <<>>
    /\ emitted = <<>>
    /\ screen = NoScreen
PickerOff ==
    /\ cardsToPick = Pick
    /\ selected = <<>>
    /\ picked = NoPick
ClientOff == ViewOff /\ PickerOff

ServerInit ==
    /\ db = Games
    /\ games = [g \in Games |-> NewGame]
    /\ rooms = [g \in Games |-> {}]
    /\ pc = [c \in Conns |-> "idle"]
    /\ cmd = [c \in Conns |-> NoCmd]
    /\ timers = {}
    /\ out = <<>>
    /\ last = NoLast
    /\ ann = [g \in Games |-> <<>>]
    /\ accepted = [g \in Games |-> {}]
    /\ ncmds = 0

Init == ServerInit /\ ClientOff

----------------------------------------------------------------------------
(* handleMessage: a command arrives and its listener runs to the first await *)

Receive(c, key, g, p, cards) ==
    /\ pc[c] = "idle"
    /\ ncmds < MaxCmds
    /\ ncmds' = ncmds + 1
    /\ pc' = [pc EXCEPT ![c] = "getting"]
    /\ cmd' = [cmd EXCEPT ![c] = [key |-> key, gameId |-> g, playerId |-> p,
                                  cards |-> cards, effect |-> FALSE, raced |-> FALSE]]
    /\ out' = <<>>
    /\ last' = NoLast
    /\ UNCHANGED <<db, games, timers, ann, accepted>>
    /\ UNCHANGED <<viewVars, pickerVars>>

\* the listener ends: normally, or in the catch with an 'error' to the sender
Done(c, err) ==
    /\ pc' = [pc EXCEPT ![c] = "idle"]
    /\ cmd' = [cmd EXCEPT ![c] = NoCmd]
    /\ last' = [conn |-> c, key |-> cmd[c].key, gameId |-> cmd[c].gameId,
                playerId |-> cmd[c].playerId, err |-> err,
                effect |-> (cmd[c].effect \/ err = "none"), raced |-> cmd[c].raced]

Failed(c, err) ==
    /\ Done(c, err)
    /\ out' = <<ErrorEvent(c, cmd[c].key, err)>>

Succeeded(c) == Done(c, "none")

\* The payloads are those of a client acting for itself: its own socket id as
\* playerId, cards of its own hand, and as reveal target or winner a player
\* whose submission the round shows.  A client leaves a game it is in.  Any
\* connection, host or not, may send any command; payloads that have gone
\* stale by the time the listener continues are what make the session refuse.

\* socket.join(room) runs before the first await
JoinReceive(c) ==
    \E g \in Games :
        /\ Receive(c, "game:join", g, c, <<>>)
        /\ rooms' = [rooms EXCEPT ![g] = @ \cup {c}]

LeaveReceive(c) ==
    \E g \in Games :
        /\ c \in Range(games[g].players)
        /\ Receive(c, "game:leave", g, c, <<>>)
        /\ UNCHANGED rooms

PlayReceive(c) ==
    \E g \in Games : \E cards \in {<<x>> : x \in games[g].hands[c]} :
        /\ Receive(c, "game:play-white-cards", g, c, cards)
        /\ UNCHANGED rooms

RevealReceive(c) ==
    \E g \in Games : \E target \in Submitters(games[g]) :
        /\ Receive(c, "game:reveal-card", g, target, <<>>)
        /\ UNCHANGED rooms

FinishReceive(c) ==
    \E g \in Games : \E w \in Submitters(games[g]) :
        /\ Receive(c, "game:finish-round", g, w, <<>>)
        /\ UNCHANGED rooms

\* the handlers that hold session g: db.getGame has given it to them and
\* their listener has not ended
Holders(g) == {d \in Conns : pc[d] \in {"fetched", "removing"} /\ cmd[d].gameId = g}

\* db.getGame resolves with the live session ...
GetGameResolve(c) ==
    /\ pc[c] = "getting"
    /\ cmd[c].gameId \in db
    /\ pc' = [pc EXCEPT ![c] = "fetched"]
    /\ cmd' = [cmd EXCEPT ![c].raced = \E d \in Holders(cmd[c].gameId) : cmd[d].key = cmd[c].key]
    /\ out' = <<>>
    /\ last' = NoLast
    /\ UNCHANGED <<db, games, rooms, timers, ann, accepted, ncmds>>
    /\ UNCHANGED <<viewVars, pickerVars>>

\* ... or rejects with GameNotFound
GetGameReject(c) ==
    /\ pc[c] = "getting"
    /\ cmd[c].gameId \notin db
    /\ Failed(c, "GameNotFound")
    /\ UNCHANGED <<db, games, rooms, timers, ann, accepted, ncmds>>
    /\ UNCHANGED <<viewVars, pickerVars>>

JoinContinue(c) ==
    /\ pc[c] = "fetched"
    /\ cmd[c].key = "game:join"
    /\ LET g == cmd[c].gameId
           ng == AddPlayer(games[g], cmd[c].playerId)
       IN /\ games' = [games EXCEPT ![g] = ng]
          /\ out' = <<RoomEvent("game:edit", g, ng, c)>>
    /\ Succeeded(c)
    /\ UNCHANGED <<db, rooms, timers, ann, accepted, ncmds>>
    /\ UNCHANGED <<viewVars, pickerVars>>

LeaveContinue(c) ==
    /\ pc[c] = "fetched"
    /\ cmd[c].key = "game:leave"
    /\ LET g == cmd[c].gameId
           ng == RemovePlayer(games[g], cmd[c].playerId)
       IN /\ games' = [games EXCEPT ![g] = ng]
          /\ out' = <<RoomEvent("game:edit", g, ng, c),
                      RoomEvent("game:kick", g, cmd[c].playerId, c)>>
          /\ accepted' = [accepted EXCEPT ![g] = {s \in @ : s.player # cmd[c].playerId}]
          /\ IF Len(ng.players) = 0
             THEN /\ pc' = [pc EXCEPT ![c] = "removing"]
                  /\ cmd' = [cmd EXCEPT ![c].effect = TRUE]
                  /\ last' = NoLast
             ELSE Succeeded(c)
    /\ UNCHANGED <<db, rooms, timers, ann, ncmds>>
    /\ UNCHANGED <<viewVars, pickerVars>>

\* db.removeGame resolves: the session is evicted
RemoveGameResolve(c) ==
    /\ pc[c] = "removing"
    /\ db' = db \ {cmd[c].gameId}
    /\ out' = <<>>
    /\ Succeeded(c)
    /\ UNCHANGED <<games, rooms, timers, ann, accepted, ncmds>>
    /\ UNCHANGED <<viewVars, pickerVars>>

\* db.removeGame rejects (the awaited call is inside the try of handleMessage)
RemoveGameReject(c) ==
    /\ pc[c] = "removing"
    /\ Failed(c, "RemoveFailed")
    /\ UNCHANGED <<db, games, rooms, timers, ann, accepted, ncmds>>
    /\ UNCHANGED <<viewVars, pickerVars>>

\* PlayContinue, had the handler stored the new submission over the round's
\* list instead of adding to it
PlayContinue_Overwrite(c) ==
    /\ pc[c] = "fetched"
    /\ cmd[c].key = "game:play-white-cards"
    /\ LET g == cmd[c].gameId
           err == PlayWhiteCardsErr(games[g], cmd[c].cards, cmd[c].playerId)
           pg == PlayWhiteCards(games[g], cmd[c].cards, cmd[c].playerId)
           ng == [pg EXCEPT !.whiteCards = SelectSeq(@, LAMBDA w : w.player = cmd[c].playerId)]
       IN IF err # "none"
          THEN Failed(c, err) /\ UNCHANGED <<games, accepted>>
          ELSE /\ games' = [games EXCEPT ![g] = ng]
               /\ out' = <<RoomEvent("game:edit", g, ng, c),
                           RoomEvent("game:cards-played", g, cmd[c].cards, c)>>
               /\ accepted' = [accepted EXCEPT ![g] = @ \cup
                                  {[player |-> cmd[c].playerId, cards |-> cmd[c].cards]}]
               /\ Succeeded(c)
    /\ UNCHANGED <<db, rooms, timers, ann, ncmds>>
    /\ UNCHANGED <<viewVars, pickerVars>>

PlayContinue(c) ==
    /\ pc[c] = "fetched"
    /\ cmd[c].key = "game:play-white-cards"
    /\ LET g == cmd[c].gameId
           err == PlayWhiteCardsErr(games[g], cmd[c].cards, cmd[c].playerId)
           ng == PlayWhiteCards(games[g], cmd[c].cards, cmd[c].playerId)
       IN IF err # "none"
          THEN Failed(c, err) /\ UNCHANGED <<games, accepted>>
          ELSE /\ games' = [games EXCEPT ![g] = ng]
               /\ out' = <<RoomEvent("game:edit", g, ng, c),
                           RoomEvent("game:cards-played", g, cmd[c].cards, c)>>
               /\ accepted' = [accepted EXCEPT ![g] = @ \cup
                                  {[player |-> cmd[c].playerId, cards |-> cmd[c].cards]}]
               /\ Succeeded(c)
    /\ UNCHANGED <<db, rooms, timers, ann, ncmds>>
    /\ UNCHANGED <<viewVars, pickerVars>>

RevealContinue(c) ==
    /\ pc[c] = "fetched"
    /\ cmd[c].key = "game:reveal-card"
    /\ LET g == cmd[c].gameId
           err == RevealCardErr(games[g], cmd[c].playerId)
           ng == RevealCard(games[g], cmd[c].playerId)
       IN IF err # "none"
          THEN Failed(c, err) /\ UNCHANGED games
          ELSE /\ games' = [games EXCEPT ![g] = ng]
               /\ out' = <<RoomEvent("game:edit", g, ng, c)>>
               /\ Succeeded(c)
    /\ UNCHANGED <<db, rooms, timers, ann, accepted, ncmds>>
    /\ UNCHANGED <<viewVars, pickerVars>>

FinishContinue(c) ==
    /\ pc[c] = "fetched"
    /\ cmd[c].key = "game:finish-round"
    /\ LET g == cmd[c].gameId
           err == FinishRoundErr(games[g], cmd[c].playerId)
           ng == FinishRound(games[g], cmd[c].playerId)
       IN IF err # "none"
          THEN Failed(c, err) /\ UNCHANGED <<games, timers, ann, accepted>>
          ELSE /\ games' = [games EXCEPT ![g] = ng]
               /\ out' = <<RoomEvent("game:edit", g, ng, c)>>
               /\ timers' = timers \cup {Timer(g, Len(ng.finishedRounds))}
               /\ ann' = [ann EXCEPT ![g] = Append(@, <<"game:edit">>)]
               /\ accepted' = [accepted EXCEPT ![g] = {}]
               /\ Succeeded(c)
    /\ UNCHANGED <<db, rooms, ncmds>>
    /\ UNCHANGED <<viewVars, pickerVars>>

\* TimerFire, had the callback been left armed (a repeating timer)
TimerFire_Repeat(t) ==
    /\ t \in timers
    /\ out' = <<Event("game:round-winner", t.game, rooms[t.game],
                      GameGetLastFinishedRound(games[t.game]), "timer", t)>>
    /\ ann' = [ann EXCEPT ![t.game][t.fin] = Append(@, "game:round-winner")]
    /\ last' = NoLast
    /\ UNCHANGED <<db, games, rooms, pc, cmd, timers, accepted, ncmds>>
    /\ UNCHANGED <<viewVars, pickerVars>>

\* the setTimeout callback of finish-round
TimerFire(t) ==
    /\ t \in timers
    /\ timers' = timers \ {t}
    /\ out' = <<Event("game:round-winner", t.game, rooms[t.game],
                      GameGetLastFinishedRound(games[t.game]), "timer", t)>>
    /\ ann' = [ann EXCEPT ![t.game][t.fin] = Append(@, "game:round-winner")]
    /\ last' = NoLast
    /\ UNCHANGED <<db, games, rooms, pc, cmd, accepted, ncmds>>
    /\ UNCHANGED <<viewVars, pickerVars>>

Next ==
    \/ \E c \in Conns : JoinReceive(c)
    \/ \E c \in Conns : LeaveReceive(c)
    \/ \E c \in Conns : PlayReceive(c)
    \/ \E c \in Conns : RevealReceive(c)
    \/ \E c \in Conns : FinishReceive(c)
    \/ \E c \in Conns : GetGameResolve(c)
    \/ \E c \in Conns : GetGameReject(c)
    \/ \E c \in Conns : JoinContinue(c)
    \/ \E c \in Conns : LeaveContinue(c)
    \/ \E c \in Conns : RemoveGameResolve(c)
    \/ \E c \in Conns : RemoveGameReject(c)
    \/ \E c \in Conns : PlayContinue(c)
    \/ \E c \in Conns : RevealContinue(c)
    \/ \E c \in Conns : FinishContinue(c)
    \/ \E t \in timers : TimerFire(t)

Spec == Init /\ [][Next]_vars


----------------------------------------------------------------------------
(* The Game view of one client (Game.jsx lines 23-151 and 262-338).  The    *)
(* socket is connected and the game is loaded.  Every change of the cached *)
(* game or of the view's state makes React render the view again and run   *)
(* its effect; a click that only emits does not.                           *)

\* const playerId = socket?.id
playerId == "a"

\* Number of renders of the view that are followed.
MaxRenders == 4

Undefined == "undefined"
Null == "null"

\* Answers of window.prompt: a name, or null when the prompt is cancelled.
PromptAnswers == {"ana", Null}

\* The games the view may be given.  Players and submissions are listed in
\* the order of ConnOrder; a submission of p carries the text CardText(p).
ConnOrder == <<"a", "b", "c">>
CardText(p) == IF p = "b" THEN "t&amp;c" ELSE "uno"

PlayerList(S) ==
    LET ps == SelectSeq(ConnOrder, LAMBDA p : p \in S)
    IN [i \in DOMAIN ps |-> [id |-> ps[i]]]

SubmissionList(f) ==
    LET ps == SelectSeq(ConnOrder, LAMBDA p : f[p] # "none")
    IN [i \in DOMAIN ps |-> [player |-> ps[i], card |-> CardText(ps[i]), hidden |-> f[ps[i]] = "hidden"]]

ViewPlayers == {PlayerList(S) : S \in SUBSET Conns}
ViewHosts == Conns \cup {NoPlayer}
ViewWhiteCards == {SubmissionList(f) : f \in [Conns -> {"none", "hidden", "shown"}]}

\* Histories: no finished round, or one won by b followed by one won by c.
FinishedRound(w) ==
    [host |-> "a", whiteCards |-> <<[player |-> w, card |-> CardText(w), hidden |-> FALSE]>>,
     winner |-> w]
ViewHistories == {<<>>, <<FinishedRound("b"), FinishedRound("c")>>}

ViewGames ==
    {[id |-> "g1", players |-> ps, round |-> [host |-> h, whiteCards |-> w],
      finishedRounds |-> fr, finished |-> fin] :
        ps \in ViewPlayers, h \in ViewHosts, w \in ViewWhiteCards,
        fr \in ViewHistories, fin \in BOOLEAN}

\* The games a game:edit may put in place of g: a broadcast replaces the
\* players, the host, the submissions, the history or the finished flag.
Edits(g) ==
    ({[g EXCEPT !.players = ps] : ps \in ViewPlayers}
        \cup {[g EXCEPT !.round.host = h] : h \in ViewHosts}
        \cup {[g EXCEPT !.round.whiteCards = w] : w \in ViewWhiteCards}
        \cup {[g EXCEPT !.finishedRounds = fr] : fr \in ViewHistories}
        \cup {[g EXCEPT !.finished = fin] : fin \in BOOLEAN}) \ {g}

\* The result of Array.prototype.find when no player matches.
UndefinedPlayer == [id |-> Undefined]

\* getLastFinishedRound, had it taken the round off the history (pop)
getLastFinishedRound_Pop(g) ==
    IF g.finishedRounds = <<>> THEN [ret |-> NullRound, game |-> g]
    ELSE LET round == g.finishedRounds[Len(g.finishedRounds)]
             found == {i \in DOMAIN g.players : g.players[i].id = round.winner}
             win == IF found = {} THEN UndefinedPlayer
                    ELSE g.players[CHOOSE i \in found : \A j \in found : i <= j]
         IN [ret |-> [round EXCEPT !.winner = win],
             game |-> [g EXCEPT !.finishedRounds = SubSeq(@, 1, Len(@) - 1)]]

\* getLastFinishedRound (lines 13-21): ret is the value it returns, game the
\* game object as the call leaves it.  An index past the end of the array
\* reads undefined, which is the only falsy round.
getLastFinishedRound(g) ==
    IF g.finishedRounds = <<>> THEN [ret |-> NullRound, game |-> g]
    ELSE LET round == g.finishedRounds[Len(g.finishedRounds)]
             found == {i \in DOMAIN g.players : g.players[i].id = round.winner}
             win == IF found = {} THEN UndefinedPlayer
                    ELSE g.players[CHOOSE i \in found : \A j \in found : i <= j]
         IN [ret |-> [round EXCEPT !.winner = win], game |-> g]

\* The game a client holds for the session object g with id gid: what
\* game:edit carries.
Projection(g, gid) ==
    [id |-> gid,
     players |-> [i \in DOMAIN g.players |-> [id |-> g.players[i]]],
     round |-> [host |-> g.host, whiteCards |-> g.whiteCards],
     finishedRounds |-> g.finishedRounds,
     finished |-> FALSE]

\* lines 30-37
playerData(g) == \E i \in DOMAIN g.players : g.players[i].id = playerId
playerIsHost(g) == playerId = g.round.host
roundPlayed(g) == \E j \in DOMAIN g.round.whiteCards : g.round.whiteCards[j].player = playerId
playersReady(g) ==
    Cardinality({i \in DOMAIN g.players :
                    \E j \in DOMAIN g.round.whiteCards : g.round.whiteCards[j].player = g.players[i].id})
\* allCardsSent, had it compared with the number of all players
allCardsSent_AllPlayers(g) == playersReady(g) = Len(g.players)

allCardsSent(g) == playersReady(g) = Len(g.players) - 1
showHand(g) == ~playerIsHost(g) /\ ~roundPlayed(g)

\* decodeHtml: the text a textarea shows for the markup
decodeHtml(html) == IF html = "t&amp;c" THEN "t&c" ELSE html

RECURSIVE Dedup(_)
Dedup(s) ==
    IF s = <<>> THEN <<>>
    ELSE LET r == Dedup(SubSeq(s, 1, Len(s) - 1))
         IN IF s[Len(s)] \in Range(r) THEN r ELSE Append(r, s[Len(s)])

\* groupCardsByPlayer: one group per player, in order of first appearance
CardsOfPlayer(cs, p) == SelectSeq(cs, LAMBDA c : c.player = p)

groupCardsByPlayer(cs) ==
    LET ps == Dedup([i \in DOMAIN cs |-> cs[i].player])
    IN [k \in DOMAIN ps |-> [player |-> ps[k], cards |-> CardsOfPlayer(cs, ps[k])]]

Placeholder == "¿?"

\* One GameCard of the round area: the text it shows, the submission it was
\* rendered from, and whether it has an onClick.
GameCard(c, isHost) == [text |-> IF c.hidden THEN Placeholder ELSE decodeHtml(c.card), card |-> c, onClick |-> isHost]

\* Round (lines 262-338): the winner button and the cards of the round area
Round(isHost, win, allSent, round) ==
    [button |-> win # NoPlayer,
     groups |-> IF allSent
                THEN LET gs == groupCardsByPlayer(round.whiteCards)
                     IN [k \in DOMAIN gs |->
                            [i \in DOMAIN gs[k].cards |-> GameCard(gs[k].cards[i], isHost)]]
                ELSE <<>>]

\* A message of socket.emit(key, data).  object: data is an object with the
\* fields of the record data; otherwise data is a bare string.
Message(key, object, data) == [key |-> key, object |-> object, data |-> data]

\* What a listener that destructures field f of the message gets.
Field(m, f) == IF m.object /\ f \in DOMAIN m.data THEN m.data[f] ELSE Undefined

\* The fields the listener of each command destructures (lines 440-482)
Reads(key) ==
    CASE key = "game:join" -> {"gameId", "name", "playerId"}
      [] key = "game:leave" -> {"gameId", "playerId"}
      [] key = "game:play-white-cards" -> {"gameId", "cards", "playerId"}
      [] key = "game:discard-white-card" -> {"gameId", "cards", "playerId"}
      [] key = "game:reveal-card" -> {"gameId", "playerId"}
      [] key = "game:finish-round" -> {"gameId", "winnerPlayerId"}

ViewEvents == {"game:edit", "game:cards-played", "game:round-winner"}

\* The effect of the view (lines 43-65) after a render with game g: the
\* cleanup of the previous render's effect, then the three registrations.
EffectHandlers(h) ==
    [e \in ViewEvents |-> IF e = "game:edit" THEN 1 ELSE h[e] + 1]

\* ... and what it may emit: a join, with the answer of the prompt as name,
\* when the local player is not in the game
EffectEmits(g) ==
    IF playerData(g) THEN {<<>>}
    ELSE {<<Message("game:join", TRUE, [gameId |-> g.id, name |-> name])>> : name \in PromptAnswers}

NoHandlers == [e \in ViewEvents |-> 0]

\* What the view shows of game g with winner w: the Round (line 124) and
\* the round of the RoundModal (lines 123 and 216).
Screen(g, w) ==
    LET r == Round(playerIsHost(g), w, allCardsSent(g), g.round)
    IN [button |-> r.button, groups |-> r.groups, modal |-> getLastFinishedRound(g).ret]

\* React renders the view with game g and winner w, and runs the effect.
Render(g, w, msgs) ==
    /\ handlers["game:cards-played"] < MaxRenders
    /\ game' = getLastFinishedRound(g).game
    /\ winner' = w
    /\ screen' = Screen(g, w)
    /\ handlers' = EffectHandlers(handlers)
    /\ \E join \in EffectEmits(g) : emitted' = msgs \o join

\* a click that emits and leaves the state of the view alone
EmitOnly(msgs) ==
    /\ emitted' = msgs
    /\ UNCHANGED <<game, winner, handlers, screen>>

Mounted == game # NoGame

\* the game:edit handler: editGame(cache, game)
GameEdit ==
    /\ Mounted
    /\ handlers["game:edit"] > 0
    /\ \E g \in Edits(game) : Render(g, winner, <<>>)
    /\ UNCHANGED <<vars, pickerVars>>

\* onRoundWhiteCardClick (lines 74-87)
OnRoundWhiteCardClick ==
    /\ Mounted
    /\ \E k \in DOMAIN screen.groups : \E i \in DOMAIN screen.groups[k] :
          LET cell == screen.groups[k][i]
              c == cell.card
          IN /\ cell.onClick
             /\ IF ~playerIsHost(game)
                  THEN EmitOnly(<<>>)
                  ELSE IF c.hidden
                         THEN EmitOnly(<<Message("game:reveal-card", TRUE,
                                                 [gameId |-> game.id, playerId |-> c.player])>>)
                         ELSE /\ winner # c.player
                              /\ Render(game, c.player, <<>>)
    /\ UNCHANGED <<vars, pickerVars>>

\* finishRound (lines 96-102), the onClick of the winner button
FinishRoundClick ==
    /\ Mounted
    /\ screen.button
    /\ Render(game, NoPlayer,
              <<Message("game:finish-round", TRUE, [gameId |-> game.id, winnerPlayerId |-> winner])>>)
    /\ UNCHANGED <<vars, pickerVars>>

\* playCards (lines 67-72): what it emits for the cards cs
playCards(g, cs) == Message("game:play-white-cards", TRUE, [gameId |-> g.id, cards |-> cs])

\* discardWhiteCards (lines 89-94): what it emits for the card
discardWhiteCards(g, card) == Message("game:discard-white-card", TRUE, [gameId |-> g.id, card |-> card])

\* The CardPicker of the view (lines 135-141) calls playCards with a selection
PlayCards ==
    /\ Mounted
    /\ showHand(game)
    /\ playerData(game)
    /\ EmitOnly(<<playCards(game, <<CardText(playerId)>>)>>)
    /\ UNCHANGED <<vars, pickerVars>>

\* ... or discardWhiteCards with one card
DiscardWhiteCards ==
    /\ Mounted
    /\ showHand(game)
    /\ playerData(game)
    /\ EmitOnly(<<discardWhiteCards(game, CardText(playerId))>>)
    /\ UNCHANGED <<vars, pickerVars>>

\* closeGameOverModal (lines 108-111): the view leaves and is unmounted,
\* which runs the cleanup of its effect
CloseGameOverModal ==
    /\ Mounted
    /\ game.finished
    /\ emitted' = <<Message("game:leave", FALSE, [string |-> game.id])>>
    /\ handlers' = [handlers EXCEPT !["game:edit"] = 0]
    /\ game' = NoGame
    /\ winner' = NoPlayer
    /\ screen' = NoScreen
    /\ UNCHANGED <<vars, pickerVars>>

\* The view is mounted with some game: its first render and effect.
InitView ==
    /\ ServerInit
    /\ PickerOff
    /\ \E g \in ViewGames : \E join \in EffectEmits(g) :
          /\ game = getLastFinishedRound(g).game
          /\ winner = NoPlayer
          /\ screen = Screen(g, NoPlayer)
          /\ handlers = EffectHandlers(NoHandlers)
          /\ emitted = join

NextView ==
    \/ GameEdit
    \/ OnRoundWhiteCardClick
    \/ FinishRoundClick
    \/ PlayCards
    \/ DiscardWhiteCards
    \/ CloseGameOverModal

SpecView == InitView /\ [][NextView]_<<vars, viewVars, pickerVars>>


----------------------------------------------------------------------------
(* The CardPicker (Game.jsx lines 340-413) of a view whose player may play: *)
(* its props stay as they are while the cards of the hand are clicked.     *)

\* Number of cards in the hand (the cards prop) and largest pick count.
MaxHand == 5
MaxPick == 3

PickerHand == 1..MaxHand

\* A game in which the local player is neither host nor has played.
PickerGame ==
    [id |-> "g1", players |-> PlayerList({"a", "b"}),
     round |-> [host |-> "b", whiteCards |-> <<>>],
     finishedRounds |-> <<>>, finished |-> FALSE]

\* s.slice(-n) for n >= 1: the last n elements of s
SliceLast(s, n) == SubSeq(s, IF Len(s) > n THEN Len(s) - n + 1 ELSE 1, Len(s))

cardIsSelected(sel, card) == \E i \in DOMAIN sel : sel[i] = card

readyToSend(sel, n) == Len(sel) >= n

\* selectCard, had it kept every card clicked (no slice)
SelectCard_NoSlice(card) ==
    /\ selected' = IF cardIsSelected(selected, card)
                     THEN Remove(selected, card)
                     ELSE selected \o <<card>>
    /\ picked' = NoPick
    /\ emitted' = <<>>
    /\ UNCHANGED <<vars, game, winner, handlers, screen, cardsToPick>>

\* selectCard (lines 345-351), the onClick of a card of the hand
SelectCard(card) ==
    /\ selected' = IF cardIsSelected(selected, card)
                     THEN Remove(selected, card)
                     ELSE SliceLast(selected \o <<card>>, cardsToPick)
    /\ picked' = NoPick
    /\ emitted' = <<>>
    /\ UNCHANGED <<vars, game, winner, handlers, screen, cardsToPick>>

\* sendCards (lines 362-365), the onClick of the send button
SendCards ==
    /\ readyToSend(selected, cardsToPick)
    /\ picked' = [call |-> "onCardsPicked", cards |-> selected]
    /\ emitted' = <<playCards(game, selected)>>
    /\ selected' = <<>>
    /\ UNCHANGED <<vars, game, winner, handlers, screen, cardsToPick>>

\* discard (lines 367-370), the onClick of the discard button
Discard ==
    /\ readyToSend(selected, cardsToPick)
    /\ Len(selected) = 1
    /\ picked' = [call |-> "onDiscard", cards |-> <<selected[1]>>]
    /\ emitted' = <<discardWhiteCards(game, selected[1])>>
    /\ selected' = <<>>
    /\ UNCHANGED <<vars, game, winner, handlers, screen, cardsToPick>>

InitPicker ==
    /\ ServerInit
    /\ game = PickerGame
    /\ winner = NoPlayer
    /\ screen = Screen(PickerGame, NoPlayer)
    /\ handlers = EffectHandlers(NoHandlers)
    /\ emitted = <<>>
    /\ cardsToPick \in 1..MaxPick
    /\ selected = <<>>
    /\ picked = NoPick

NextPicker ==
    \/ \E card \in PickerHand : SelectCard(card)
    \/ SendCards
    \/ Discard

SpecPicker == InitPicker /\ [][NextPicker]_<<vars, viewVars, pickerVars>>

----------------------------------------------------------------------------
(* Properties *)

\* the card texts an event carries
TextsOf(e) ==
    IF e.name = "game:edit"
    THEN {e.payload.whiteCards[i].card : i \in DOMAIN e.payload.whiteCards}
    ELSE IF e.name = "game:cards-played" THEN Range(e.payload)
    ELSE {}

\* event e carries to connection r the text of another player's submission
\* that is still hidden
Leaks(e, r) ==
    \E i \in DOMAIN games[e.room].whiteCards :
        LET w == games[e.room].whiteCards[i]
        IN w.hidden /\ w.player # r /\ w.card \in TextsOf(e)

\* C1: no event sent to the room by a submit-cards command (game:edit,
\* game:cards-played) delivers to a client other than the host the card text
\* of another player's submission whose hidden flag is still true.
C1_NoHiddenTextDelivered ==
    \A i \in DOMAIN out :
        (last.key = "game:play-white-cards" /\ out[i].name \in {"game:edit", "game:cards-played"})
            => \A r \in out[i].to : r # games[out[i].room].host => ~Leaks(out[i], r)

\* C2: per session id command executions are mutually exclusive: at most one
\* handler at a time is between fetching the session and the end of its
\* listener (apply, broadcast and, for leave, the removal).
C2_NoInterleaving == \A g \in Games : Cardinality(Holders(g)) <= 1

PlayFetched(c) == pc[c] = "fetched" /\ cmd[c].key = "game:play-white-cards"

\* pairs of submit-cards handlers of different players that hold the same
\* session at once, each of which the session would accept
ConcurrentPlays ==
    {pq \in Conns \X Conns :
        /\ pq[1] # pq[2]
        /\ PlayFetched(pq[1]) /\ PlayFetched(pq[2])
        /\ cmd[pq[1]].gameId = cmd[pq[2]].gameId
        /\ \A c \in {pq[1], pq[2]} :
              PlayWhiteCardsErr(games[cmd[c].gameId], cmd[c].cards, cmd[c].playerId) = "none"}

\* the session that the continuation of submit-cards handler c makes of g
Then(g, c) == PlayWhiteCards(g, cmd[c].cards, cmd[c].playerId)

Recorded(g, c) ==
    \A i \in DOMAIN cmd[c].cards :
        \E j \in DOMAIN g.whiteCards :
            g.whiteCards[j].player = cmd[c].playerId /\ g.whiteCards[j].card = cmd[c].cards[i]

\* C3 as stated: whichever of two concurrent submit-cards handlers of different
\* non-host players continues first, the final session state is the same.
C3_SameFinalState ==
    \A pq \in ConcurrentPlays :
        LET g == games[cmd[pq[1]].gameId]
        IN Then(Then(g, pq[1]), pq[2]) = Then(Then(g, pq[2]), pq[1])

\* C3 amended: every submission accepted in the current round stays recorded
\* (no later submit-cards overwrites it), and whichever of two concurrent
\* submit-cards handlers continues first, both are accepted and recorded and
\* the two final states agree on the players, points, host, history, the other
\* players' hands and the set of submissions; they differ at most in the order
\* of the submissions and in the replacement cards drawn.
C3_BothRecorded ==
    /\ \A g \in Games : \A s \in accepted[g] : \A i \in DOMAIN s.cards :
          \E j \in DOMAIN games[g].whiteCards :
              games[g].whiteCards[j].player = s.player /\ games[g].whiteCards[j].card = s.cards[i]
    /\ \A pq \in ConcurrentPlays :
          LET p == pq[1]
              q == pq[2]
              g == games[cmd[p].gameId]
              g1 == Then(Then(g, p), q)
              g2 == Then(Then(g, q), p)
          IN /\ PlayWhiteCardsErr(Then(g, p), cmd[q].cards, cmd[q].playerId) = "none"
             /\ PlayWhiteCardsErr(Then(g, q), cmd[p].cards, cmd[p].playerId) = "none"
             /\ Recorded(g1, p) /\ Recorded(g1, q) /\ Recorded(g2, p) /\ Recorded(g2, q)
             /\ Range(g1.whiteCards) = Range(g2.whiteCards)
             /\ Len(g1.whiteCards) = Len(g2.whiteCards)
             /\ g1.players = g2.players /\ g1.points = g2.points /\ g1.host = g2.host
             /\ g1.finishedRounds = g2.finishedRounds
             /\ \A r \in Conns \ {p, q} : g1.hands[r] = g2.hands[r]

\* C3 witness: a submit-cards that raced with another one has been accepted
\* and the round holds the submissions of two players.
C3_Witness ==
    /\ last.key = "game:play-white-cards" /\ last.err = "none" /\ last.raced
    /\ Cardinality({s.player : s \in accepted[last.gameId]}) >= 2

\* C4: no command is applied to or broadcast for a session that is being or
\* has been removed, and a session that has a player is never out of the
\* directory.
C4_RemovalExclusive ==
    /\ \A g \in Games : g \notin db => games[g].players = <<>>
    /\ \A i \in DOMAIN out :
          out[i].name \in {"game:edit", "game:kick", "game:cards-played"} =>
              /\ out[i].room \in db
              /\ \A c \in Conns \ {out[i].from} :
                    ~(pc[c] = "removing" /\ cmd[c].gameId = out[i].room)

\* C5: a listener that fails emits exactly one event, an 'error', and it goes
\* to the originating connection only.
C5_ErrorPrivate ==
    /\ \A i \in DOMAIN out : out[i].name = "error" => out[i].to = {out[i].from}
    /\ last.err # "none" =>
          /\ Len(out) = 1
          /\ out[1].name = "error"
          /\ out[1].to = {last.conn}
          /\ out[1].payload = <<last.key, last.err>>

\* C5 witness: a command failed while its sender shared a room with others.
C5_Witness ==
    /\ last.err # "none"
    /\ \E g \in Games : last.conn \in rooms[g] /\ rooms[g] \ {last.conn} # {}

\* C6: a command that ends in failure has had no effect: it sent no broadcast
\* and added or removed no player.
C6_AllOrNothing == last.err # "none" => ~last.effect

\* C7: a round-winner timer set while the session was in the directory emits
\* no game:round-winner once the last player has left and the session has been
\* removed from the directory.
C7_NoAnnouncementAfterDestroy ==
    \A i \in DOMAIN out :
        (/\ out[i].name = "game:round-winner"
         /\ out[i].timer.live
         /\ games[out[i].room].players = <<>>) => out[i].room \in db

\* C8: a finish-round whose finishRound succeeds broadcasts game:edit first and
\* afterwards exactly one game:round-winner; one that fails sends neither.
C8_EditThenOneAnnouncement ==
    /\ \A g \in Games :
          /\ Len(ann[g]) = Len(games[g].finishedRounds)
          /\ \A i \in DOMAIN ann[g] :
                /\ ann[g][i] \in {<<"game:edit">>, <<"game:edit", "game:round-winner">>}
                /\ (ann[g][i] = <<"game:edit">>) <=> (\E t \in timers : t.game = g /\ t.fin = i)
    /\ \A t \in timers : t.fin \in DOMAIN ann[t.game]
    /\ last.key = "game:finish-round" =>
          /\ Len(out) = 1
          /\ out[1].name = IF last.err = "none" THEN "game:edit" ELSE "error"
    /\ \A i \in DOMAIN out : out[i].name = "game:round-winner" =>
          /\ out[i].timer.fin \in DOMAIN ann[out[i].room]
          /\ ann[out[i].room][out[i].timer.fin] = <<"game:edit", "game:round-winner">>

\* C8 witness: the announcement of a finished round has been sent after its
\* state broadcast.
C8_Witness ==
    \E g \in Games : \E i \in DOMAIN ann[g] :
        /\ ann[g][i] = <<"game:edit", "game:round-winner">>
        /\ \E j \in DOMAIN out : out[j].name = "game:round-winner" /\ out[j].timer.fin = i

\* C9: the game:round-winner scheduled by a finish-round carries the snapshot
\* of the round which that command finished.
C9_AnnouncesOwnRound ==
    \A i \in DOMAIN out : out[i].name = "game:round-winner" =>
        out[i].payload = games[out[i].room].finishedRounds[out[i].timer.fin]

\* C10: a reveal-card sent by a connection that is not the round's host fails
\* (the claim names the failure NotYourTurn; any failure is accepted here).
C10_OnlyHostReveals ==
    (last.key = "game:reveal-card" /\ last.conn # games[last.gameId].host)
        => last.err # "none"

\* C11: every command message the view emits carries every payload field the
\* listener of that command destructures, so that no listener works with an
\* undefined game id, player id or card argument.
C11_EmitsCarryReadFields ==
    \A i \in DOMAIN emitted :
        \A f \in Reads(emitted[i].key) : Field(emitted[i], f) # Undefined

\* C12: once a round has been finished with winner w, getLastFinishedRound
\* returns a round whose winner is the player w, whatever joins and leaves
\* (w's own included) have followed.
C12_WinnerIdentified ==
    \A g \in Games :
        games[g].finishedRounds # <<>> =>
            getLastFinishedRound(Projection(games[g], g)).ret.winner.id
                = games[g].finishedRounds[Len(games[g].finishedRounds)].winner

\* C13: getLastFinishedRound returns null exactly when the history is empty,
\* otherwise the last round of the history with its winner resolved among the
\* players, and it leaves the game as it found it.
C13_PureReadOfLastRound ==
    Mounted =>
        /\ getLastFinishedRound(game).game = game
        /\ screen.modal = NullRound <=> game.finishedRounds = <<>>
        /\ game.finishedRounds # <<>> =>
              LET lastRound == game.finishedRounds[Len(game.finishedRounds)]
              IN /\ screen.modal.host = lastRound.host
                 /\ screen.modal.whiteCards = lastRound.whiteCards
                 /\ \/ screen.modal.winner = UndefinedPlayer
                    \/ /\ screen.modal.winner.id = lastRound.winner
                       /\ screen.modal.winner \in Range(game.players)

C13_Witness ==
    /\ Mounted
    /\ Len(game.finishedRounds) = 2
    /\ screen.modal # NullRound
    /\ screen.modal.winner = [id |-> "c"]
    /\ handlers["game:cards-played"] > 1

\* Every present player other than the host has a submission in the round.
AllNonHostSubmitted(g) ==
    \A i \in DOMAIN g.players :
        g.players[i].id # g.round.host =>
            \E j \in DOMAIN g.round.whiteCards : g.round.whiteCards[j].player = g.players[i].id

\* The cards the round area shows.
Cells == UNION {Range(screen.groups[k]) : k \in DOMAIN screen.groups}

\* C14: whoever the viewer is, the round area shows the text of a submission
\* only if the submission is not hidden and all players other than the host
\* have submitted; otherwise it shows nothing or the placeholder.
C14_TextOnlyWhenRevealedAndAllSent ==
    Mounted =>
        \A cell \in Cells :
            cell.text # Placeholder => ~cell.card.hidden /\ AllNonHostSubmitted(game)

\* C15: when the host is one of the players and has no submission,
\* allCardsSent is true exactly when every other player has a submission.
C15_AllCardsSentMeansAllOthers ==
    (/\ Mounted
     /\ \E i \in DOMAIN game.players : game.players[i].id = game.round.host
     /\ \A j \in DOMAIN game.round.whiteCards : game.round.whiteCards[j].player # game.round.host)
        => (allCardsSent(game) <=> AllNonHostSubmitted(game))

C15_Witness ==
    /\ Mounted
    /\ Len(game.players) = 3
    /\ game.round.host = "b"
    /\ Len(game.round.whiteCards) = 2
    /\ \A j \in DOMAIN game.round.whiteCards : game.round.whiteCards[j].player # game.round.host
    /\ allCardsSent(game)
    /\ screen.groups # <<>>
    /\ handlers["game:cards-played"] > 1

\* C16: the view emits finish-round only when the local player is the host
\* of the current round, and only naming a player whose submission in the
\* current round is revealed at that moment.
C16_FinishOnlyByHostForRevealed ==
    \A i \in DOMAIN emitted :
        emitted[i].key = "game:finish-round" =>
            /\ playerIsHost(game)
            /\ \E j \in DOMAIN game.round.whiteCards :
                  /\ game.round.whiteCards[j].player = emitted[i].data.winnerPlayerId
                  /\ ~game.round.whiteCards[j].hidden

\* C17: a connection with no command in progress is subscribed to the room
\* of a session only if it is one of the session's players, that is, only
\* while a join of it has succeeded and no leave of it has succeeded since.
C17_SubscribedOnlyWhileJoined ==
    \A g \in Games : \A c \in rooms[g] :
        pc[c] = "idle" => c \in Range(games[g].players)

NoDuplicate(s) == \A i, j \in DOMAIN s : s[i] = s[j] => i = j

\* C18: in the CardPicker the selection never holds a card twice nor more
\* than cardsToPick cards, the send button is offered exactly when it holds
\* cardsToPick cards, and a send emits exactly the cards selected and
\* empties the selection.
C18_SelectionBoundedAndSent ==
    /\ NoDuplicate(selected)
    /\ Len(selected) <= cardsToPick
    /\ readyToSend(selected, cardsToPick) <=> Len(selected) = cardsToPick
    /\ picked.call = "onCardsPicked" =>
          /\ Len(picked.cards) = cardsToPick
          /\ NoDuplicate(picked.cards)
          /\ emitted = <<playCards(game, picked.cards)>>
          /\ selected = <<>>

C18_Witness ==
    /\ cardsToPick = 2
    /\ picked.call = "onCardsPicked"
    /\ picked.cards = <<3, 1>>
    /\ selected = <<>>

\* C19: while the view is mounted, exactly one handler is registered on the
\* socket for each of game:edit, game:cards-played and game:round-winner,
\* however many times the view has been rendered.
C19_OneHandlerPerEvent ==
    Mounted => \A e \in ViewEvents : handlers[e] = 1

====
